---- MODULE Spec2Model ----
(***************************************************************************)
(* Model of the subtitle remover: the App component's view state and its   *)
(* event handlers (src/App.tsx) together with the image edit service       *)
(* (src/services/geminiService.ts).                                        *)
(*                                                                         *)
(* Strings are sequences of tokens, so that concatenation (\o), splitting  *)
(* and "contains" are computed rather than assumed.  A null / undefined    *)
(* string held in view state is the empty sequence: every test the code    *)
(* makes on those fields is a truthiness test.                             *)
(***************************************************************************)
EXTENDS Integers, Sequences, FiniteSets, TLC

VARIABLES
    originalImage,      \* App.tsx:51  the selected File (its name), NoFile for null
    originalImageUrl,   \* App.tsx:52  its object URL, null when none
    processedImageUrl,  \* App.tsx:53  the data URL of the result, null when none
    isLoading,          \* App.tsx:54
    error,              \* App.tsx:55  the message shown, null when none
    apiKey,             \* geminiService.ts:25  whether process.env.API_KEY is set
    calls,              \* the removeSubtitlesFromImage calls awaited at App.tsx:92,
                        \* in the order they were started
    processedFor,       \* the file closed over by the call that set processedImageUrl
    event               \* the handler that ran last, with the call it settled
                        \* (response.text is kept as the property read at
                        \* geminiService.ts:60, beside the candidates)

vars == <<originalImage, originalImageUrl, processedImageUrl, isLoading,
          error, apiKey, calls, processedFor, event>>

view == <<originalImage, originalImageUrl, processedImageUrl, isLoading, error>>

\* ------------------------------------------------------------------ bounds
\* Largest number of removeSubtitlesFromImage calls unresolved at once.
MaxInFlight == 2

\* ----------------------------------------------------------------- strings
null == <<>>
NoFile == "<none>"

RECURSIVE IndexOf(_, _, _)
\* position of the first token equal to sep at or after i, 0 when there is none
IndexOf(s, sep, i) ==
    IF i > Len(s) THEN 0
    ELSE IF s[i] = sep THEN i
    ELSE IndexOf(s, sep, i + 1)

RECURSIVE Split(_, _)
\* String.prototype.split on a one-token separator
Split(s, sep) ==
    LET k == IndexOf(s, sep, 1)
    IN  IF k = 0 THEN <<s>>
        ELSE <<SubSeq(s, 1, k - 1)>> \o Split(SubSeq(s, k + 1, Len(s)), sep)

\* t occurs in s as a contiguous run of tokens
Contains(s, t) ==
    \E i \in 1..(Len(s) - Len(t) + 1) : SubSeq(s, i, i + Len(t) - 1) = t

\* a thrown value: an Error carrying a message, or a value of another shape
Err(m) == [isError |-> TRUE, message |-> m]
NotAnError == [isError |-> FALSE, message |-> <<>>]

\* ------------------------------------------------------------------- files
Files == {"a.png", "b.jpg", "empty.png", "raw.img", "gone.png", "notes.txt"}

\* File.type
FileType(f) ==
    CASE f = "a.png"     -> <<"image/", "png">>
      [] f = "b.jpg"     -> <<"image/", "jpeg">>
      [] f = "empty.png" -> <<"image/", "png">>
      [] f = "raw.img"   -> <<"image/", "x-raw">>
      [] f = "gone.png"  -> <<"image/", "png">>
      [] OTHER           -> <<"text/", "plain">>

\* what FileReader.readAsDataURL delivers for the file: onload with
\* reader.result, or onerror with a ProgressEvent
ReadAsDataURL(f) ==
    CASE f = "a.png"     -> [ok |-> TRUE, result |-> <<"data", ":", "image/", "png", ";", "base64", ",", "QUJD">>]
      [] f = "b.jpg"     -> [ok |-> TRUE, result |-> <<"data", ":", "image/", "jpeg", ";", "base64", ",", "REVG">>]
      [] f = "empty.png" -> [ok |-> TRUE, result |-> <<"data", ":", "image/", "png", ";", "base64", ",">>]
      [] f = "raw.img"   -> [ok |-> TRUE, result |-> <<"data", ":", ";", "base64", ",", "R0hJ">>]
      [] f = "notes.txt" -> [ok |-> TRUE, result |-> <<"data", ":", "text/", "plain", ";", "base64", ",", "SGk=">>]
      [] OTHER           -> [ok |-> FALSE, result |-> <<>>]

\* file.type.startsWith('image/')
IsImageType(f) == Len(FileType(f)) >= 1 /\ FileType(f)[1] = "image/"

\* ---------------------------------------------------------------- messages
InvalidTypeMsg == <<"Please upload a valid image file (PNG, JPG, etc.).">>
MissingKeyMsg == <<"The API_KEY environment variable is not set.">>
InvalidFormatMsg == <<"Invalid file format for base64 conversion.">>
NoMimeMsg == <<"Could not determine MIME type from file.">>
FailedPrefix == <<"Failed to process image: ">>
UnknownServiceMsg == <<"An unknown error occurred while processing the image.">>
UnknownUiMsg == <<"An unknown error occurred.">>
TypeErrorMsg == <<"Cannot read properties of undefined (reading 'find')">>

\* the text of the Error thrown when the response holds no image part;
\* has = FALSE is an undefined response.text, which the template prints
NoImageMsg(text) ==
    <<"AI did not return an image. It may have provided a text response instead: ", "\"">>
        \o (IF text.has THEN text.val ELSE <<"undefined">>) \o <<"\"">>

\* ----------------------------------------------------------------- encoder
\* the onload / onerror handlers of fileToBase64: resolves with
\* { mimeType, data } or rejects with the thrown value
fileToBase64(read) ==
    IF ~read.ok THEN [ok |-> FALSE, err |-> NotAnError, mimeType |-> <<>>, data |-> <<>>]
    ELSE
      LET pieces == Split(read.result, ",")
          mimeTypePart == pieces[1]
          base64Data == IF Len(pieces) >= 2 THEN pieces[2] ELSE <<>>
          afterColon == Split(mimeTypePart, ":")
          mimeType == IF Len(afterColon) >= 2 THEN Split(afterColon[2], ";")[1] ELSE <<>>
      IN  IF mimeTypePart = <<>> \/ base64Data = <<>>
          THEN [ok |-> FALSE, err |-> Err(InvalidFormatMsg), mimeType |-> <<>>, data |-> <<>>]
          ELSE IF mimeType = <<>>
          THEN [ok |-> FALSE, err |-> Err(NoMimeMsg), mimeType |-> <<>>, data |-> <<>>]
          ELSE [ok |-> TRUE, err |-> NotAnError, mimeType |-> mimeType, data |-> base64Data]

\* --------------------------------------------------------------- responses
Absent == [has |-> FALSE, val |-> <<>>]
Present(v) == [has |-> TRUE, val |-> v]

ImagePart(d) == [inlineData |-> Present(d), text |-> Absent]
TextPart(t) == [inlineData |-> Absent, text |-> Present(t)]
\* a candidate with content.parts = ps
Candidate(ps) == [content |-> [has |-> TRUE, parts |-> Present(ps)]]
NoContent == [content |-> [has |-> FALSE, parts |-> Absent]]
NoParts == [content |-> [has |-> TRUE, parts |-> Absent]]
Response(cs, t) == [kind |-> "response", candidates |-> cs, text |-> t, err |-> NotAnError]
Raised(e) == [kind |-> "error", candidates |-> Absent, text |-> Absent, err |-> e]

Declined == <<"declined: ", "unsafe content">>
QuotaExceeded == <<"quota exceeded">>

\* what the awaited ai.models.generateContent call can produce
Transports ==
    { Response(Present(<<Candidate(<<ImagePart(<<"IMG1">>)>>)>>), Absent),
      Response(Present(<<Candidate(<<TextPart(<<"here">>), ImagePart(<<"IMG1">>),
                                     TextPart(<<"done">>), ImagePart(<<"IMG2">>)>>),
                         Candidate(<<ImagePart(<<"IMG3">>)>>)>>), Present(<<"here", "done">>)),
      Response(Present(<<Candidate(<<TextPart(Declined)>>),
                         Candidate(<<ImagePart(<<"IMG3">>)>>)>>), Present(Declined)),
      Response(Present(<<Candidate(<<>>)>>), Absent),
      Response(Present(<<>>), Present(Declined)),
      Response(Absent, Absent),
      Response(Present(<<NoContent>>), Present(Declined)),
      Response(Present(<<NoParts>>), Present(Declined)),
      Raised(Err(QuotaExceeded)),
      Raised(NotAnError) }

RECURSIVE Find_Last(_, _)
\* Find as it would be if the scan kept the last match instead of the first
Find_Last(parts, i) ==
    IF i > Len(parts) THEN 0
    ELSE LET later == Find_Last(parts, i + 1)
         IN  IF later # 0 THEN later
             ELSE IF parts[i].inlineData.has THEN i
             ELSE 0

RECURSIVE Find(_, _)
\* parts.find(part => part.inlineData) from position i: the index of the
\* first part with inline data, 0 when there is none
Find(parts, i) ==
    IF i > Len(parts) THEN 0
    ELSE IF parts[i].inlineData.has THEN i
    ELSE Find(parts, i + 1)

\* response.candidates?.[0]?.content?.parts.find(part => part.inlineData):
\* the optional chain ends before .find, which throws on missing parts
FindImagePart(response) ==
    IF ~response.candidates.has \/ Len(response.candidates.val) = 0
    THEN [threw |-> FALSE, part |-> Absent]
    ELSE LET content == response.candidates.val[1].content
         IN  IF ~content.has THEN [threw |-> FALSE, part |-> Absent]
             ELSE IF ~content.parts.has THEN [threw |-> TRUE, part |-> Absent]
             ELSE LET k == Find(content.parts.val, 1)
                  IN  IF k = 0 THEN [threw |-> FALSE, part |-> Absent]
                      ELSE [threw |-> FALSE, part |-> Present(content.parts.val[k].inlineData.val)]

\* ----------------------------------------------------------------- service
Pending == [tag |-> "pending", data |-> <<>>, err |-> NotAnError]
Resolved(d) == [tag |-> "resolved", data |-> d, err |-> NotAnError]
Rejected(e) == [tag |-> "rejected", data |-> <<>>, err |-> e]

NoRequest == [mimeType |-> <<>>, data |-> <<>>]
NoTransport == [kind |-> "none", candidates |-> Absent, text |-> Absent, err |-> NotAnError]

\* CatchAndRethrow as it would be if the Error were rethrown unwrapped
CatchAndRethrow_NoPrefix(e) ==
    IF e.isError THEN Rejected(Err(e.message))
    ELSE Rejected(Err(UnknownServiceMsg))

\* the catch block of removeSubtitlesFromImage
CatchAndRethrow(e) ==
    IF e.isError THEN Rejected(Err(FailedPrefix \o e.message))
    ELSE Rejected(Err(UnknownServiceMsg))

\* BeginCall as it would be without the credential check
BeginCall_NoKeyCheck(key, f) ==
    [file |-> f, pc |-> "reading", reads |-> 1, sends |-> 0, request |-> NoRequest,
     transport |-> NoTransport, outcome |-> Pending]

\* removeSubtitlesFromImage up to its first suspension: the credential
\* check, then the start of the file read
BeginCall(key, f) ==
    IF ~key
    THEN [file |-> f, pc |-> "done", reads |-> 0, sends |-> 0, request |-> NoRequest,
          transport |-> NoTransport, outcome |-> Rejected(Err(MissingKeyMsg))]
    ELSE [file |-> f, pc |-> "reading", reads |-> 1, sends |-> 0, request |-> NoRequest,
          transport |-> NoTransport, outcome |-> Pending]

\* the continuation after await fileToBase64: one generateContent request
\* when encoding succeeded, the catch block when it did not
AfterEncode(c) ==
    LET enc == fileToBase64(ReadAsDataURL(c.file))
    IN  IF enc.ok
        THEN [c EXCEPT !.pc = "requesting", !.sends = @ + 1,
                       !.request = [mimeType |-> enc.mimeType, data |-> enc.data]]
        ELSE [c EXCEPT !.pc = "done", !.outcome = CatchAndRethrow(enc.err)]

\* lines 54-61: the first inline-data part of the first candidate, or the
\* Error quoting response.text
Interpret(response) ==
    LET found == FindImagePart(response)
    IN  IF found.threw THEN CatchAndRethrow(Err(TypeErrorMsg))
        ELSE IF found.part.has THEN Resolved(found.part.val)
        ELSE CatchAndRethrow(Err(NoImageMsg(response.text)))

\* AfterTransport as it would be if a failed request were sent once more
AfterTransport_Retry(c, t) ==
    [c EXCEPT !.pc = "done", !.transport = t,
              !.sends = IF t.kind = "response" THEN @ ELSE @ + 1,
              !.outcome = IF t.kind = "response" THEN Interpret(t)
                          ELSE CatchAndRethrow(t.err)]

\* the continuation after await generateContent
AfterTransport(c, t) ==
    [c EXCEPT !.pc = "done", !.transport = t,
              !.outcome = IF t.kind = "response" THEN Interpret(t)
                          ELSE CatchAndRethrow(t.err)]

\* ---------------------------------------------------------------------- UI
NoCall == [file |-> NoFile, pc |-> "none", reads |-> 0, sends |-> 0, request |-> NoRequest,
           transport |-> NoTransport, outcome |-> Pending]
NoDownload == [href |-> <<>>, name |-> <<>>]

\* the handler that ran last, the call it settled and the download it made
Event(op, c, d) == [op |-> op, call |-> c, download |-> d]

\* URL.createObjectURL(file)
CreateObjectURL(f) == <<"blob:", f>>

\* the sequence s without its i-th element
RemoveAt(s, i) == SubSeq(s, 1, i - 1) \o SubSeq(s, i + 1, Len(s))

\* err instanceof Error ? err.message : 'An unknown error occurred.'
ErrorMessage(e) == IF e.isError THEN e.message ELSE UnknownUiMsg

\* Settle as it would be if a success also cleared the error
Settle_ClearsError(v, c) ==
    IF c.outcome.tag = "resolved"
    THEN [v EXCEPT !.processedImageUrl = <<"data:image/png;base64,">> \o c.outcome.data,
                   !.processedFor = c.file,
                   !.error = null,
                   !.isLoading = FALSE]
    ELSE [v EXCEPT !.error = ErrorMessage(c.outcome.err),
                   !.isLoading = FALSE]

\* handleProcessImage after its await, applied to the view fields v it
\* closes over: try (line 93), catch (95-96), finally (98)
Settle(v, c) ==
    IF c.outcome.tag = "resolved"
    THEN [v EXCEPT !.processedImageUrl = <<"data:image/png;base64,">> \o c.outcome.data,
                   !.processedFor = c.file,
                   !.isLoading = FALSE]
    ELSE [v EXCEPT !.error = ErrorMessage(c.outcome.err),
                   !.isLoading = FALSE]

\* the fields handleProcessImage writes, as a record
Held == [processedImageUrl |-> processedImageUrl, error |-> error,
         isLoading |-> isLoading, processedFor |-> processedFor]

\* write the record back to the view state
Apply(v) ==
    /\ processedImageUrl' = v.processedImageUrl
    /\ error' = v.error
    /\ isLoading' = v.isLoading
    /\ processedFor' = v.processedFor

\* the file input is rendered only while no image is selected
FileInputRendered == originalImageUrl = null
\* the submit button is rendered when an image is selected and there is
\* neither a request in progress nor a result
SubmitRendered == originalImageUrl # null /\ ~(isLoading \/ processedImageUrl # null)
\* the Start Over button sits in the image block
ResetRendered == originalImageUrl # null
\* the download button
DownloadRendered == originalImageUrl # null /\ processedImageUrl # null

Init ==
    /\ originalImage = NoFile
    /\ originalImageUrl = null
    /\ processedImageUrl = null
    /\ isLoading = FALSE
    /\ error = null
    /\ apiKey \in BOOLEAN
    /\ calls = <<>>
    /\ processedFor = NoFile
    /\ event = Event("init", NoCall, NoDownload)

\* onChange of the file input; f = NoFile is a change event without a file
handleFileChange(f) ==
    /\ FileInputRendered
    /\ event' = Event("handleFileChange", NoCall, NoDownload)
    /\ IF f = NoFile
       THEN UNCHANGED <<view, processedFor>>
       ELSE IF ~IsImageType(f)
       THEN /\ error' = InvalidTypeMsg
            /\ UNCHANGED <<originalImage, originalImageUrl, processedImageUrl,
                           isLoading, processedFor>>
       ELSE /\ originalImage' = f
            /\ originalImageUrl' = CreateObjectURL(f)
            /\ processedImageUrl' = null
            /\ isLoading' = FALSE
            /\ error' = null
            /\ processedFor' = NoFile
    /\ UNCHANGED <<apiKey, calls>>

\* onClick of Start Over
resetState ==
    /\ ResetRendered
    /\ originalImage' = NoFile
    /\ originalImageUrl' = null
    /\ processedImageUrl' = null
    /\ isLoading' = FALSE
    /\ error' = null
    /\ processedFor' = NoFile
    /\ event' = Event("resetState", NoCall, NoDownload)
    /\ UNCHANGED <<apiKey, calls>>

\* onClick of Remove Subtitles: the synchronous part of handleProcessImage
\* and of removeSubtitlesFromImage; a call rejected by the credential check
\* settles before any other event can run
handleProcessImage ==
    /\ SubmitRendered
    /\ originalImage # NoFile
    /\ Len(calls) < MaxInFlight
    /\ LET c == BeginCall(apiKey, originalImage)
           started == [processedImageUrl |-> null, error |-> null,
                       isLoading |-> TRUE, processedFor |-> NoFile]
       IN  IF c.pc = "done"
           THEN /\ Apply(Settle(started, c))
                /\ calls' = calls
                /\ event' = Event("handleProcessImage", c, NoDownload)
           ELSE /\ Apply(started)
                /\ calls' = Append(calls, c)
                /\ event' = Event("handleProcessImage", NoCall, NoDownload)
    /\ UNCHANGED <<originalImage, originalImageUrl, apiKey>>

\* the file read of call i ends (reader.onload or reader.onerror)
ReaderDone(i) ==
    /\ calls[i].pc = "reading"
    /\ LET c == AfterEncode(calls[i])
       IN  IF c.pc = "done"
           THEN /\ Apply(Settle(Held, c))
                /\ calls' = RemoveAt(calls, i)
                /\ event' = Event("settle", c, NoDownload)
           ELSE /\ calls' = [calls EXCEPT ![i] = c]
                /\ event' = Event("generateContent", NoCall, NoDownload)
                /\ UNCHANGED <<processedImageUrl, error, isLoading, processedFor>>
    /\ UNCHANGED <<originalImage, originalImageUrl, apiKey>>

\* the generateContent call of call i ends with t
TransportDone(i, t) ==
    /\ calls[i].pc = "requesting"
    /\ LET c == AfterTransport(calls[i], t)
       IN  /\ Apply(Settle(Held, c))
           /\ calls' = RemoveAt(calls, i)
           /\ event' = Event("settle", c, NoDownload)
    /\ UNCHANGED <<originalImage, originalImageUrl, apiKey>>

\* onClick of Download Image
handleDownload ==
    /\ DownloadRendered
    /\ event' = Event("handleDownload", NoCall,
                      [href |-> processedImageUrl,
                       name |-> <<"cleaned-", IF originalImage # NoFile THEN originalImage
                                              ELSE "image.png">>])
    /\ UNCHANGED <<view, apiKey, calls, processedFor>>

Next ==
    \/ \E f \in Files \cup {NoFile} : handleFileChange(f)
    \/ resetState
    \/ handleProcessImage
    \/ \E i \in 1..Len(calls) : ReaderDone(i)
    \/ \E i \in 1..Len(calls) : \E t \in Transports : TransportDone(i, t)
    \/ handleDownload

Spec == Init /\ [][Next]_vars

\* ------------------------------------------------------------------ claims
\* the call settled by the last step, if that step settled one
Settled == event.call.pc = "done"
\* the UI state Failed: a message held, an image selected, not loading
Failed == error # null /\ originalImage # NoFile /\ ~isLoading
\* the parts of the first candidate of a response, <<>> when any level of
\* candidates[0].content.parts is missing
FirstParts(r) ==
    IF r.candidates.has /\ Len(r.candidates.val) >= 1
       /\ r.candidates.val[1].content.has /\ r.candidates.val[1].content.parts.has
    THEN r.candidates.val[1].content.parts.val
    ELSE <<>>
NoInlinePart(r) == \A k \in 1..Len(FirstParts(r)) : ~FirstParts(r)[k].inlineData.has

\* C1: at most one removeSubtitlesFromImage call is unresolved in every
\* reachable state, so no submission starts while an earlier one is in flight.
C1_AtMostOneInFlight == Len(calls) <= 1

\* C2: a result image and a failure message are never held together.
C2_NeverBoth == ~(processedImageUrl # null /\ error # null)

\* C3: after a Reset during Processing, the completion of the request in
\* flight changes no view-state field: while no image is selected, a step
\* that settles a call leaves the view as it was.
C3_ResetDiscards ==
    [][(originalImage = NoFile /\ event'.op = "settle") => view' = view]_vars

\* C4 as stated: in Failed, the message is cleared only by a Reset or by a
\* file selection.
C4_OnlyResetOrSelectClears ==
    [][(Failed /\ error' = null) => event'.op \in {"resetState", "handleFileChange"}]_vars

\* C4 as amended: in Failed, the message is cleared only by a Reset or by
\* pressing the submit action again; no other step leaves the view without
\* a failure message.
C4_ClearedOnlyByResetOrSubmit ==
    [][(Failed /\ error' = null) => event'.op \in {"resetState", "handleProcessImage"}]_vars

\* Failed, with a message held across a step that is neither Reset nor submit
C4_Witness == Failed /\ event.op = "handleDownload"

\* C5: without an API key a call is rejected with the missing-credential
\* error, having read no file and sent no request, and no call is ever left
\* in flight.
C5_NoKeyNoIO ==
    ~apiKey =>
        /\ calls = <<>>
        /\ Settled => /\ event.call.outcome = Rejected(Err(MissingKeyMsg))
                      /\ event.call.reads = 0
                      /\ event.call.sends = 0

C5_Witness == ~apiKey /\ Settled /\ error = MissingKeyMsg

\* C6: a call sends exactly one request when the key is present and the
\* encoding succeeds, none otherwise, and never a second one.
C6_OneRequest ==
    /\ \A i \in 1..Len(calls) :
          calls[i].sends = (IF calls[i].pc = "requesting" THEN 1 ELSE 0)
    /\ Settled =>
          event.call.sends =
             (IF apiKey /\ fileToBase64(ReadAsDataURL(event.call.file)).ok THEN 1 ELSE 0)

C6_Witness ==
    /\ Settled
    /\ event.call.transport.kind = "error"
    /\ event.call.outcome.tag = "rejected"
    /\ event.call.sends = 1

\* C7: when the first candidate of the response has a part with inline data,
\* the call resolves with the data of the first such part; a call never
\* resolves with data from anywhere else.
C7_FirstInlinePart ==
    (Settled /\ event.call.transport.kind = "response") =>
        LET parts == FirstParts(event.call.transport)
        IN  /\ \A k \in 1..Len(parts) :
                  (parts[k].inlineData.has /\ \A j \in 1..(k - 1) : ~parts[j].inlineData.has)
                      => event.call.outcome = Resolved(parts[k].inlineData.val)
            /\ event.call.outcome.tag = "resolved" => ~NoInlinePart(event.call.transport)

C7_Witness ==
    /\ Settled
    /\ Len(FirstParts(event.call.transport)) = 4
    /\ event.call.outcome = Resolved(<<"IMG1">>)
    /\ processedImageUrl = <<"data:image/png;base64,", "IMG1">>

\* C8: a response without an inline part in its first candidate that carries
\* text T is rejected with a message containing T.
C8_TextQuoted ==
    (Settled /\ event.call.transport.kind = "response"
             /\ NoInlinePart(event.call.transport) /\ event.call.transport.text.has) =>
        /\ event.call.outcome.tag = "rejected"
        /\ Contains(event.call.outcome.err.message, event.call.transport.text.val)

\* C9: a request that fails with an Error of message M is rejected with
\* "Failed to process image: " followed by M, a failure of another shape
\* with the generic message, and the view then holds that message.
C9_WrappedMessage ==
    (event.op = "settle" /\ event.call.transport.kind = "error") =>
        LET expected == IF event.call.transport.err.isError
                        THEN <<"Failed to process image: ">> \o event.call.transport.err.message
                        ELSE <<"An unknown error occurred while processing the image.">>
        IN  /\ event.call.outcome = Rejected(Err(expected))
            /\ error = expected

C9_Witness ==
    /\ event.op = "settle"
    /\ event.call.transport = Raised(Err(QuotaExceeded))
    /\ error = <<"Failed to process image: ", "quota exceeded">>

\* C10: a held result image was produced by a request submitted for the
\* held original image.
C10_ResultMatchesOriginal ==
    (originalImage # NoFile /\ processedImageUrl # null) => processedFor = originalImage

====
